---- MODULE Spec2Model ----
(***************************************************************************)
(* Timetable generator: the two solve calls                                *)
(*   app2.generate_timetable          (python-constraint)                  *)
(*   app3.generate_timetable_ortools  (OR-Tools CP-SAT)                    *)
(* as one state machine over a request (constraints, courses, allow_free). *)
(*                                                                         *)
(* Python dicts are functions; a dict built by repeated assignment keeps   *)
(* the value of the last assignment to a key.  Python lists are sequences; *)
(* a code index i (0-based) is position i + 1 of the sequence.             *)
(***************************************************************************)
EXTENDS Integers, Sequences, FiniteSets, TLC

VARIABLES
    engine,                \* "app2" | "app3": which module's solve call runs
    constraints,           \* argument `constraints` (a dict)
    courses,               \* argument `courses` (a list of dicts)
    allow_free,            \* argument `allow_free`
    pc,                    \* position inside the solve call
    calls,                 \* the callees entered so far
    ts,                    \* what get_time_slots returned
    subj,                  \* the subject tables (app2: three dicts, app3: list `subjects`)
    tot,                   \* total_available_slots, total_required_slots, free name
    mdl,                   \* app3: allowed_starts_cache and occ_metadata
    solution,              \* app2: slot name -> subject; app3: occ_id -> start index
    result,                \* the value the solve call returns
    generated_timetable,   \* st.session_state.generated_timetable: <<>> is None, <<v>> holds v
    last_error             \* st.session_state.last_error: <<>> is None, <<m>> holds message m

vars == <<engine, constraints, courses, allow_free, pc, calls, ts, subj, tot, mdl,
          solution, result, generated_timetable, last_error>>

(***************************************************************************)
(* Bounds of the request space.                                            *)
(***************************************************************************)
MaxSlots == 4              \* the working days of a request hold at most this many slots

None == "None"             \* Python's None

Range(f) == {f[x] : x \in DOMAIN f}

RECURSIVE SumSeq(_)
SumSeq(s) == IF s = <<>> THEN 0 ELSE Head(s) + SumSeq(Tail(s))

RECURSIVE SumOver(_, _)
SumOver(f, S) ==
    IF S = {} THEN 0
    ELSE LET x == CHOOSE y \in S : TRUE IN f[x] + SumOver(f, S \ {x})

Min(S) == CHOOSE x \in S : \A y \in S : x <= y
Max(S) == CHOOSE x \in S : \A y \in S : x >= y

(***************************************************************************)
(* get_time_slots                                                          *)
(***************************************************************************)
WeekDays == <<"Monday", "Tuesday", "Wednesday", "Thursday", "Friday", "Saturday", "Sunday">>

day_abbreviations ==
    [d \in Range(WeekDays) |->
        CASE d = "Monday" -> "M" [] d = "Tuesday" -> "T" [] d = "Wednesday" -> "W"
          [] d = "Thursday" -> "Th" [] d = "Friday" -> "F" [] d = "Saturday" -> "Sa"
          [] d = "Sunday" -> "Su"]

\* day.lower()
Lower(d) ==
    CASE d = "Monday" -> "monday" [] d = "Tuesday" -> "tuesday"
      [] d = "Wednesday" -> "wednesday" [] d = "Thursday" -> "thursday"
      [] d = "Friday" -> "friday" [] d = "Saturday" -> "saturday"
      [] d = "Sunday" -> "sunday"
      [] d = "Holiday" -> "holiday"

\* day_abbreviations.get(day, day[:2])
FirstTwo(d) == CASE d = "Holiday" -> "Ho"
Abbrev(day) ==
    IF day \in DOMAIN day_abbreviations THEN day_abbreviations[day] ELSE FirstTwo(day)

LunchHour == 12

\* app2: the slot takes the current hour, then the hour advances by 2 from 12, else by 1
RECURSIVE DayHours2(_, _)
DayHours2(start, hours) ==
    IF hours = 0 THEN <<>>
    ELSE <<start>> \o DayHours2(IF start = LunchHour THEN start + 2 ELSE start + 1, hours - 1)

\* app3: `while start == 12: start += 1` runs before the slot takes the hour
SkipLunch3(start) == IF start = LunchHour THEN start + 1 ELSE start

RECURSIVE DayHours3(_, _)
DayHours3(start, hours) ==
    IF hours = 0 THEN <<>>
    ELSE <<SkipLunch3(start)>> \o DayHours3(SkipLunch3(start) + 1, hours - 1)

DayHours(eng, start, hours) ==
    IF eng = "app2" THEN DayHours2(start, hours) ELSE DayHours3(start, hours)

\* The keys of a dict filled from a list of (key, value) records, in insertion
\* order: a key keeps the place of its first assignment.
RECURSIVE DictKeys(_)
DictKeys(wd) ==
    IF wd = <<>> THEN <<>>
    ELSE LET front == DictKeys(SubSeq(wd, 1, Len(wd) - 1))
             k == wd[Len(wd)].day
         IN IF k \in Range(front) THEN front ELSE Append(front, k)

\* ... and the value of a key: that of its last assignment.
LastOf(wd, day) == wd[Max({i \in 1..Len(wd) : wd[i].day = day})]

\* a slot builder that walks the clock hours start .. start + hours - 1 and
\* makes no slot for the lunch hour
DaySlots_drop_lunch(eng, day, start, hours) ==
    LET hs == SelectSeq([j \in 1..hours |-> start + j - 1], LAMBDA h : h # LunchHour)
    IN [j \in 1..Len(hs) |-> [name |-> <<Abbrev(day), j>>,
                              day |-> Lower(day), hour |-> hs[j]]]

\* The slots of one day, in creation order: name f"{abbrev}{j + 1}", day.lower(), hour.
DaySlots(eng, day, start, hours) ==
    LET hs == DayHours(eng, start, hours)
    IN [j \in 1..hours |-> [name |-> <<Abbrev(day), j>>,
                            day |-> Lower(day), hour |-> hs[j]]]

\* a slot builder that puts the days in reverse order
RECURSIVE AllSlots_last_day_first(_, _, _)
AllSlots_last_day_first(eng, wd, keys) ==
    IF keys = <<>> THEN <<>>
    ELSE LET d == LastOf(wd, Head(keys))
         IN AllSlots_last_day_first(eng, wd, Tail(keys)) \o DaySlots(eng, d.day, d.start_hr, d.total_hours)

RECURSIVE AllSlots(_, _, _)
AllSlots(eng, wd, keys) ==
    IF keys = <<>> THEN <<>>
    ELSE LET d == LastOf(wd, Head(keys))
         IN DaySlots(eng, d.day, d.start_hr, d.total_hours) \o AllSlots(eng, wd, Tail(keys))

\* get_time_slots(slot_counts_by_day, start_times), the two dicts being read
\* off the working_days list `wd`.  slot_time is keyed by slot name in app2 and
\* by slot index in app3; a key assigned twice keeps its last value.
get_time_slots(eng, wd) ==
    LET all == AllSlots(eng, wd, DictKeys(wd))
        names == {all[i].name : i \in 1..Len(all)}
        lastIdx(nm) == Max({i \in 1..Len(all) : all[i].name = nm})
    IN [slot_names |-> [i \in 1..Len(all) |-> all[i].name],
        slot_time |-> IF eng = "app2"
                      THEN [nm \in names |-> all[lastIdx(nm)].hour]
                      ELSE [i \in 0..(Len(all) - 1) |-> all[i + 1].hour],
        slot_to_day |-> [nm \in names |-> all[lastIdx(nm)].day],
        day_slot_counts |->
            [d \in {Lower(k) : k \in Range(DictKeys(wd))} |->
                LET k == CHOOSE k \in Range(DictKeys(wd)) : Lower(k) = d
                IN LastOf(wd, k).total_hours]]

(***************************************************************************)
(* The request space.  A course dict carries name, lectureno, duration,    *)
(* start_hr, end_hr (instructor_name is never read by the solve call; the  *)
(* numbers the form stores as str(int(x)) and the solve call reads back    *)
(* with int() are kept as integers).                                        *)
(***************************************************************************)
CourseNames == {"A", "B"}
LectureCounts == {1, 2}                \* lectures per week, of the form's 1..10
Durations == {1, 2}                    \* of the form's [1, 2, 3]
Windows == {<<9, 17>>, <<9, 14>>}      \* instructor start / end hour
DayStartHours == {11}                  \* start hour of a working day
ModelDays == <<"Monday", "Tuesday">>   \* the days a request may include, in form order

CourseRecords ==
    {[name |-> n, lectureno |-> l, duration |-> d, start_hr |-> w[1], end_hr |-> w[2]] :
        n \in CourseNames, l \in LectureCounts, d \in Durations, w \in Windows}

CourseLists ==
    {<<>>} \cup {<<c>> : c \in CourseRecords} \cup {<<c, d>> : c \in CourseRecords, d \in CourseRecords}

DayRecords(day) ==
    {[day |-> day, start_hr |-> s, total_hours |-> h] : s \in DayStartHours, h \in 1..MaxSlots}

\* The "Set Constraints" form walks the week in order and appends each included day.
WorkingDayLists ==
    {<<>>} \cup {<<d>> : d \in DayRecords(ModelDays[1]) \cup DayRecords(ModelDays[2])}
    \cup {<<d, e>> : d \in DayRecords(ModelDays[1]), e \in DayRecords(ModelDays[2])}

TotalHours(wd) == SumSeq([i \in 1..Len(wd) |-> wd[i].total_hours])

\* A saved pair: [""] when a selectbox was left empty, else the two names.
PairChoices == {<<"">>, <<"A", "B">>}

\* st.session_state.constraints before any save: {}
EmptyDict ==
    [working_days |-> <<>>, consecutive_subjects |-> <<>>, non_consecutive_subjects |-> <<>>]

\* "Save Constraints" refuses the same pair for both relations.
SavedConstraints ==
    {[working_days |-> wd, consecutive_subjects |-> c, non_consecutive_subjects |-> n] :
        wd \in {w \in WorkingDayLists : TotalHours(w) <= MaxSlots},
        c \in PairChoices, n \in PairChoices}
    \ {k \in [working_days : WorkingDayLists, consecutive_subjects : PairChoices,
              non_consecutive_subjects : PairChoices] :
          /\ k.consecutive_subjects[1] # ""
          /\ k.non_consecutive_subjects[1] # ""
          /\ Range(k.consecutive_subjects) = Range(k.non_consecutive_subjects)}

Init ==
    /\ engine \in {"app2", "app3"}
    /\ constraints \in {EmptyDict} \cup SavedConstraints
    /\ courses \in CourseLists
    /\ allow_free \in BOOLEAN
    /\ pc = "start"
    /\ calls = {}
    /\ ts = None
    /\ subj = None
    /\ tot = None
    /\ mdl = None
    /\ solution = None
    /\ result = None
    /\ generated_timetable = <<>>
    /\ last_error = <<>>

Error(msg) == [error |-> msg]

(***************************************************************************)
(* Course processing and demand normalisation                              *)
(***************************************************************************)
NamesOf(cs) == {cs[i].name : i \in 1..Len(cs)}
LastCourse(cs, n) == cs[Max({i \in 1..Len(cs) : cs[i].name = n})]

\* app2, lines 130-146: three dicts keyed by course name
ProcessCourses2(cs) ==
    [required |-> [n \in NamesOf(cs) |->
                      LastCourse(cs, n).lectureno * LastCourse(cs, n).duration],
     info |-> [n \in NamesOf(cs) |->
                  [start_hr |-> LastCourse(cs, n).start_hr,
                   end_hr |-> LastCourse(cs, n).end_hr,
                   duration |-> LastCourse(cs, n).duration]],
     multi |-> [n \in {cs[i].name : i \in {j \in 1..Len(cs) : cs[j].duration > 1}} |->
                   cs[Max({i \in 1..Len(cs) : cs[i].name = n /\ cs[i].duration > 1})].duration]]

\* app3, lines 135-146: the list `subjects`
ProcessCourses3(cs) ==
    [i \in 1..Len(cs) |->
        [name |-> cs[i].name, lectures |-> cs[i].lectureno, duration |-> cs[i].duration,
         start_hr |-> cs[i].start_hr, end_hr |-> cs[i].end_hr]]

\* app2 line 152: sum(subject_required_slots.values())
TotalRequired2(sb) == SumOver(sb.required, DOMAIN sb.required)
\* app3 line 152: sum(s['lectures'] * s['duration'] for s in subjects)
TotalRequired3(sb) == SumSeq([i \in 1..Len(sb) |-> sb[i].lectures * sb[i].duration])

\* "Free", then Free_1, Free_2, ... until the name is not taken
FreeCandidates == <<"Free", "Free_1", "Free_2", "Free_3">>
\* a Free subject always called "Free", whatever the courses are called
FreeName_unchecked(existing) == "Free"

FreeName(existing) ==
    FreeCandidates[Min({i \in 1..Len(FreeCandidates) : FreeCandidates[i] \notin existing})]

\* the availability and duration given to the Free subject (app2 167, app3 170)
FreeInfo == [start_hr |-> 0, end_hr |-> 24, duration |-> 1]

\* a Free subject that takes every slot of the week instead of the surplus
FreeSlots_whole_week(available, required) == available

\* the number of slots the Free subject takes
FreeSlots(available, required) == available - required

\* app2, lines 155-172: which branch the capacity check takes
Capacity2(available, required, allow) ==
    IF available > required
    THEN IF allow THEN "free" ELSE "mismatch"
    ELSE IF available < required THEN "under" ELSE "ok"

\* a capacity check that lets an under-capacity request pass
Capacity3_no_under_check(available, required, allow) ==
    IF available > required /\ allow THEN "free" ELSE "ok"

\* app3, lines 155-170: under-capacity returns; a surplus without allow_free
\* passes on with no Free subject
Capacity3(available, required, allow) ==
    IF available < required THEN "under"
    ELSE IF available > required /\ allow THEN "free" ELSE "ok"

Capacity(eng, available, required, allow) ==
    IF eng = "app2" THEN Capacity2(available, required, allow)
    ELSE Capacity3(available, required, allow)

AddFree2(sb, name, diff) ==
    [required |-> [n \in DOMAIN sb.required \cup {name} |->
                      IF n = name THEN diff ELSE sb.required[n]],
     info |-> [n \in DOMAIN sb.info \cup {name} |->
                  IF n = name THEN FreeInfo ELSE sb.info[n]],
     multi |-> sb.multi]

AddFree3(sb, name, diff) ==
    Append(sb, [name |-> name, lectures |-> diff, duration |-> FreeInfo.duration,
                start_hr |-> FreeInfo.start_hr, end_hr |-> FreeInfo.end_hr])

SubjectNames(eng, sb) ==
    IF eng = "app2" THEN DOMAIN sb.required ELSE {sb[i].name : i \in 1..Len(sb)}

\* a request check that looks at the working days only
RequestProblem_days_only(cons, cs) ==
    IF cons.working_days = <<>> THEN "No working days configured." ELSE None

\* app2 114-120, app3 120-125: the message of the request check, None when it passes
RequestProblem(cons, cs) ==
    IF cons = EmptyDict \/ cs = <<>> THEN "No constraints or courses provided."
    ELSE IF cons.working_days = <<>> THEN "No working days configured."
    ELSE None

\* generate_timetable 114-172; generate_timetable_ortools 120-170: the request
\* check, the course tables, get_time_slots and the capacity check
Normalize ==
    /\ pc = "start"
    /\ IF RequestProblem(constraints, courses) # None
       THEN /\ result' = Error(<<RequestProblem(constraints, courses)>>)
            /\ pc' = "done"
            /\ UNCHANGED <<calls, ts, subj, tot>>
       ELSE \E t \in {get_time_slots(engine, constraints.working_days)},
               sb \in {IF engine = "app2" THEN ProcessCourses2(courses)
                       ELSE ProcessCourses3(courses)} :
            LET available == Len(t.slot_names)
                required == IF engine = "app2" THEN TotalRequired2(sb) ELSE TotalRequired3(sb)
                c == Capacity(engine, available, required, allow_free)
                name == FreeName(SubjectNames(engine, sb))
                diff == FreeSlots(available, required)
            IN /\ calls' = calls \cup {"get_time_slots"}
               /\ ts' = t
               /\ tot' = [available |-> available, required |-> required,
                          free |-> IF c = "free" THEN name ELSE None]
               /\ subj' = IF c # "free" THEN sb
                          ELSE IF engine = "app2" THEN AddFree2(sb, name, diff)
                          ELSE AddFree3(sb, name, diff)
               /\ CASE c = "mismatch" ->
                         /\ result' = Error(<<"Total available slots != total required subject-slots",
                                              available, required>>)
                         /\ pc' = "done"
                    [] c = "under" ->
                         /\ result' = Error(<<"Total available slots < total required subject-slots",
                                              available, required>>)
                         /\ pc' = "done"
                    [] c \in {"free", "ok"} ->
                         /\ pc' = "model"
                         /\ UNCHANGED result
    /\ UNCHANGED <<engine, constraints, courses, allow_free, mdl, solution,
                   generated_timetable, last_error>>

(***************************************************************************)
(* app2: the constraints handed to python-constraint.  timetable_values is *)
(* the tuple of the slots' subjects in time_slots order, indexed from 0.   *)
(***************************************************************************)
Count(tv, s) == Cardinality({i \in DOMAIN tv : tv[i] = s})

\* lines 185-189
every_subject_constraint(tv, required) ==
    \A s \in DOMAIN required : Count(tv, s) = required[s]

\* lines 203-211: the maximal runs of consecutive indices
Runs(indices) ==
    {{j \in indices : j >= a /\ \A k \in a..j : k \in indices} :
        a \in {i \in indices : (i - 1) \notin indices}}

\* lines 213-218: the check made on each run
RunOk(run, duration, slot_index_to_day) ==
    /\ Cardinality(run) = duration
    /\ \A r \in run : slot_index_to_day[Min(run)] = slot_index_to_day[r]

\* lines 192-219
multi_slot_constraint(tv, multi, slot_index_to_day) ==
    IF DOMAIN multi = {} THEN TRUE
    ELSE \A s \in DOMAIN multi :
            LET indices == {i \in DOMAIN tv : tv[i] = s}
            IN /\ indices # {}
               /\ \A run \in Runs(indices) : RunOk(run, multi[s], slot_index_to_day)

\* line 229: the slot's hour against the subject's window
HourOk(start_hr, info) == ~(start_hr < info.start_hr \/ start_hr >= info.end_hr)

\* lines 222-231
teacher_availability_constraint(tv, info, t) ==
    \A s \in DOMAIN info :
        \A i \in {j \in DOMAIN tv : tv[j] = s} :
            HourOk(t.slot_time[t.slot_names[i + 1]], info[s])

\* lines 245, 248, 264, 267: b sits right before or right after index i
Beside(tv, i, b) ==
    \/ (i > 0 /\ tv[i - 1] = b)
    \/ (i < Cardinality(DOMAIN tv) - 1 /\ tv[i + 1] = b)

\* an adjacency check made for the second subject of the pair only
user_consecutive_pair_constraint_one_way(tv, cons) ==
    IF cons = <<>> \/ cons[1] = "" THEN TRUE
    ELSE IF Len(cons) < 2 THEN TRUE
    ELSE IF cons[1] = cons[2] THEN TRUE
    ELSE \A i \in DOMAIN tv : tv[i] = cons[2] => Beside(tv, i, cons[1])

\* lines 234-250; cons is constraints.get('consecutive_subjects') or []
user_consecutive_pair_constraint(tv, cons) ==
    IF cons = <<>> \/ cons[1] = "" THEN TRUE
    ELSE IF Len(cons) < 2 THEN TRUE
    ELSE IF cons[1] = cons[2] THEN TRUE
    ELSE \A i \in DOMAIN tv :
            /\ (tv[i] = cons[1] => Beside(tv, i, cons[2]))
            /\ (tv[i] = cons[2] => Beside(tv, i, cons[1]))

\* lines 253-269
user_non_consecutive_pair_constraint(tv, noncons) ==
    IF noncons = <<>> \/ noncons[1] = "" THEN TRUE
    ELSE IF Len(noncons) < 2 THEN TRUE
    ELSE IF noncons[1] = noncons[2] THEN TRUE
    ELSE \A i \in DOMAIN tv :
            /\ (tv[i] = noncons[1] => ~Beside(tv, i, noncons[2]))
            /\ (tv[i] = noncons[2] => ~Beside(tv, i, noncons[1]))

\* lines 180-182
SlotIndexToDay(t) ==
    [idx \in 0..(Len(t.slot_names) - 1) |-> t.slot_to_day[t.slot_names[idx + 1]]]

\* the tuple python-constraint passes to a constraint over time_slots
TimetableValues(t, sol) == [i \in 0..(Len(t.slot_names) - 1) |-> sol[t.slot_names[i + 1]]]

\* lines 272-277: a full assignment the problem accepts
Accepts2(t, sb, cons, noncons, sol) ==
    LET tv == TimetableValues(t, sol)
    IN /\ every_subject_constraint(tv, sb.required)
       /\ (DOMAIN sb.multi # {} => multi_slot_constraint(tv, sb.multi, SlotIndexToDay(t)))
       /\ teacher_availability_constraint(tv, sb.info, t)
       /\ user_consecutive_pair_constraint(tv, cons)
       /\ user_non_consecutive_pair_constraint(tv, noncons)

\* lines 175-177: one variable per slot name, each with domain course_names
Solutions2(t, sb, cons, noncons) ==
    {sol \in [Range(t.slot_names) -> DOMAIN sb.required] : Accepts2(t, sb, cons, noncons, sol)}


(***************************************************************************)
(* app3: the CP-SAT model.  One interval per lecture occurrence; the       *)
(* solver's answer is the start index of each occurrence.                  *)
(***************************************************************************)
\* lines 194-209: the start indices allowed to one subject record
AllowedStarts(t, sj) ==
    LET num_slots == Len(t.slot_names)
    IN {s \in 0..(num_slots - 1) :
          LET end_idx == s + sj.duration - 1
          IN /\ ~(end_idx >= num_slots)
             /\ ~(t.slot_to_day[t.slot_names[s + 1]] # t.slot_to_day[t.slot_names[end_idx + 1]])
             /\ \A x \in s..end_idx :
                   ~(t.slot_time[x] < sj.start_hr \/ t.slot_time[x] >= sj.end_hr)}

\* lines 190-210: allowed_starts_cache, a dict keyed by subject NAME, written
\* once per subject record in list order
AllowedStartsCache(t, sb) ==
    [n \in {sb[i].name : i \in 1..Len(sb)} |->
        AllowedStarts(t, sb[Max({i \in 1..Len(sb) : sb[i].name = n})])]

\* lines 213-215: the subjects with lectures and no allowed start, in list order
Unschedulable(sb, cache) ==
    {i \in 1..Len(sb) : cache[sb[i].name] = {} /\ sb[i].lectures > 0}

\* lines 218-239: occ_metadata; occurrence ids count up from 0 over the subject
\* records in list order, `lectures` ids per record
RECURSIVE OccMetadata(_)
OccMetadata(sb) ==
    IF sb = <<>> THEN <<>>
    ELSE LET front == OccMetadata(SubSeq(sb, 1, Len(sb) - 1))
             last == sb[Len(sb)]
         IN front \o [k \in 1..last.lectures |->
                        [occ_id |-> Len(front) + k - 1, name |-> last.name,
                         duration |-> last.duration]]

\* name_to_occ_ids.get(A, [])
OccIds(occ, A) == {occ[k].occ_id : k \in {j \in 1..Len(occ) : occ[j].name = A}}
DurOf(occ, a) == occ[a + 1].duration

\* lines 225-227: the start variable's domain is the cache entry of the NAME
StartsInDomain(m, st) == \A k \in 1..Len(m.occ) : st[k - 1] \in m.allowed[m.occ[k].name]

\* line 243: AddNoOverlap over all intervals [start, start + duration)
NoOverlap(m, st) ==
    \A a, b \in DOMAIN st :
        a # b => (st[a] + DurOf(m.occ, a) <= st[b] \/ st[b] + DurOf(m.occ, b) <= st[a])

\* lines 264-278: some adjacency variable of occurrence a can be true:
\* occurrence b of B starts right where a ends, or a starts right where b ends
AdjacentTo(m, num_slots, st, a, A, B) ==
    \E b \in OccIds(m.occ, B) :
        \/ \E s \in m.allowed[A] :
              /\ s + DurOf(m.occ, a) < num_slots
              /\ s + DurOf(m.occ, a) \in m.allowed[B]
              /\ st[a] = s /\ st[b] = s + DurOf(m.occ, a)
        \/ \E s \in m.allowed[B] :
              /\ s + DurOf(m.occ, b) < num_slots
              /\ s + DurOf(m.occ, b) \in m.allowed[A]
              /\ st[b] = s /\ st[a] = s + DurOf(m.occ, b)

\* lines 250-284: only the occurrences of A are constrained
add_consecutive_pair(m, num_slots, st, A, B) ==
    IF OccIds(m.occ, A) = {} \/ OccIds(m.occ, B) = {} THEN TRUE
    ELSE \A a \in OccIds(m.occ, A) : AdjacentTo(m, num_slots, st, a, A, B)

\* a non-consecutive pair that only forbids B right after A
add_non_consecutive_pair_one_way(m, num_slots, st, A, B) ==
    IF OccIds(m.occ, A) = {} \/ OccIds(m.occ, B) = {} THEN TRUE
    ELSE \A a \in OccIds(m.occ, A) : \A b \in OccIds(m.occ, B) :
            \A s \in m.allowed[A] :
                (s + DurOf(m.occ, a) < num_slots /\ s + DurOf(m.occ, a) \in m.allowed[B])
                => ~(st[a] = s /\ st[b] = s + DurOf(m.occ, a))

\* lines 286-305
add_non_consecutive_pair(m, num_slots, st, A, B) ==
    IF OccIds(m.occ, A) = {} \/ OccIds(m.occ, B) = {} THEN TRUE
    ELSE \A a \in OccIds(m.occ, A) : \A b \in OccIds(m.occ, B) :
            /\ \A s \in m.allowed[A] :
                  (s + DurOf(m.occ, a) < num_slots /\ s + DurOf(m.occ, a) \in m.allowed[B])
                  => ~(st[a] = s /\ st[b] = s + DurOf(m.occ, a))
            /\ \A s \in m.allowed[B] :
                  (s + DurOf(m.occ, b) < num_slots /\ s + DurOf(m.occ, b) \in m.allowed[A])
                  => ~(st[b] = s /\ st[a] = s + DurOf(m.occ, b))

\* lines 246-247: constraints.get(...) or [""]
OrBlank(pair) == IF pair = <<>> THEN <<"">> ELSE pair

\* lines 172-313: an assignment of start indices the model accepts
Accepts3(t, m, cons, noncons, st) ==
    /\ StartsInDomain(m, st)
    /\ NoOverlap(m, st)
    /\ (OrBlank(cons)[1] # "" /\ Len(OrBlank(cons)) >= 2
          => add_consecutive_pair(m, Len(t.slot_names), st, cons[1], cons[2]))
    /\ (OrBlank(noncons)[1] # "" /\ Len(OrBlank(noncons)) >= 2
          => add_non_consecutive_pair(m, Len(t.slot_names), st, noncons[1], noncons[2]))

\* a no-overlap test that also wants a free slot between two occurrences
Clear_with_gap(m, p, k, s) ==
    \A j \in 1..Len(p) :
        p[j] + m.occ[j].duration < s \/ s + m.occ[k].duration < p[j]

\* Occurrence k (the k-th of occ_metadata) started at s overlaps none of the
\* occurrences 1..Len(p) started at p[1], p[2], ...
Clear(m, p, k, s) ==
    \A j \in 1..Len(p) :
        p[j] + m.occ[j].duration <= s \/ s + m.occ[k].duration <= p[j]

\* The start assignments that keep every start in its domain and no two
\* intervals overlapping, built occurrence by occurrence: the first k
\* occurrences placed, as the sequence of their starts.
RECURSIVE Placements(_, _)
Placements(m, k) ==
    IF k = 0 THEN {<<>>}
    ELSE {Append(x[1], x[2]) :
            x \in {y \in Placements(m, k - 1) \X m.allowed[m.occ[k].name] :
                     Clear(m, y[1], k, y[2])}}

Solutions3(t, m, cons, noncons) ==
    {st \in {[o \in 0..(Len(m.occ) - 1) |-> p[o + 1]] : p \in Placements(m, Len(m.occ))} :
        Accepts3(t, m, cons, noncons, st)}

\* generate_timetable 174-277 (Problem, addVariables, addConstraint);
\* generate_timetable_ortools 172-313 (CpModel, allowed starts, occurrences, pairs)
BuildModel ==
    /\ pc = "model"
    /\ calls' = calls \cup {"model"}
    /\ IF engine = "app2"
       THEN /\ mdl' = [slot_index_to_day |-> SlotIndexToDay(ts)]
            /\ pc' = "solve"
            /\ UNCHANGED result
       ELSE \E cache \in {AllowedStartsCache(ts, subj)} :
            \E bad \in {Unschedulable(subj, cache)} :
               IF bad # {}
               THEN /\ result' = Error(<<"No feasible start slots for subject",
                                         subj[Min(bad)].name>>)
                    /\ pc' = "done"
                    /\ mdl' = [allowed |-> cache, occ |-> <<>>]
               ELSE /\ mdl' = [allowed |-> cache, occ |-> OccMetadata(subj)]
                    /\ pc' = "solve"
                    /\ UNCHANGED result
    /\ UNCHANGED <<engine, constraints, courses, allow_free, ts, subj, tot, solution,
                   generated_timetable, last_error>>

(***************************************************************************)
(* The response                                                            *)
(***************************************************************************)
\* The decimal digits of a natural number, most significant first.
RECURSIVE Digits(_)
Digits(n) == IF n < 10 THEN <<n>> ELSE Append(Digits(n \div 10), n % 10)

\* f"{h:02d}:00" as its characters: a digit is its value, ':' is 10 (it sorts
\* after every digit, as in ASCII)
Fmt(h) == (IF h < 10 THEN <<0, h>> ELSE Digits(h)) \o <<10, 0, 0>>

\* Python's str <
RECURSIVE StrLess(_, _)
StrLess(a, b) ==
    IF b = <<>> THEN FALSE
    ELSE IF a = <<>> THEN TRUE
    ELSE IF Head(a) # Head(b) THEN Head(a) < Head(b)
    ELSE StrLess(Tail(a), Tail(b))

\* list.sort(key=lambda x: x['start_time']): stable, ascending
RECURSIVE InsertByStart(_, _)
InsertByStart(sorted, e) ==
    IF sorted = <<>> THEN <<e>>
    ELSE IF StrLess(e.start_time, sorted[Len(sorted)].start_time)
         THEN Append(InsertByStart(SubSeq(sorted, 1, Len(sorted) - 1), e), sorted[Len(sorted)])
         ELSE Append(sorted, e)

RECURSIVE SortByStart(_)
SortByStart(es) ==
    IF es = <<>> THEN <<>>
    ELSE InsertByStart(SortByStart(SubSeq(es, 1, Len(es) - 1)), es[Len(es)])

\* the entries appended to resp_data[day], in the order they were appended
DayEntries(es, day) ==
    LET sel == SelectSeq(es, LAMBDA e : e.day = day)
    IN [i \in 1..Len(sel) |-> sel[i].entry]

\* app2 286-295: one entry per slot of the solution, end_hr = start_hr + 1
Entries2(t, sol) ==
    [i \in 1..Len(t.slot_names) |->
        LET slot_name == t.slot_names[i]
            start_hr == t.slot_time[slot_name]
        IN [day |-> t.slot_to_day[slot_name],
            entry |-> [slot |-> slot_name, subject |-> sol[slot_name],
                       start_time |-> Fmt(start_hr), end_time |-> Fmt(start_hr + 1)]]]

\* app3 327-345: one entry per occurrence, at its start slot, end_hr = start_hr + dur
Entries3(t, m, st) ==
    [k \in 1..Len(m.occ) |->
        LET start_idx == st[m.occ[k].occ_id]
            slot_name == t.slot_names[start_idx + 1]
            start_hr == t.slot_time[start_idx]
        IN [day |-> t.slot_to_day[slot_name],
            entry |-> [slot |-> slot_name, subject |-> m.occ[k].name,
                       start_time |-> Fmt(start_hr),
                       end_time |-> Fmt(start_hr + m.occ[k].duration)]]]

\* app2 285; app3 325: the keys of resp_data
RespKeys == {Lower(WeekDays[i]) : i \in 1..Len(WeekDays)}

\* app2 285, 297-301; app3 325, 347-351: the seven day lists, each sorted
RespData(es) ==
    [d \in RespKeys |-> SortByStart(DayEntries(es, d))]

\* app2 290; app3 340: resp_data[day].append(...) with a day that is no key of
\* resp_data raises KeyError, which nothing in the solve call catches
KeyError == [exception |-> "KeyError"]
Raised(r) == "exception" \in DOMAIN r

Response(eng, t, m, sol) ==
    LET es == IF eng = "app2" THEN Entries2(t, sol) ELSE Entries3(t, m, sol)
    IN IF \E i \in 1..Len(es) : es[i].day \notin RespKeys THEN KeyError ELSE RespData(es)

NoTimetable ==
    Error(<<"No valid timetable found with the given constraints.">>)

Solutions ==
    IF engine = "app2"
    THEN Solutions2(ts, subj, constraints.consecutive_subjects,
                    constraints.non_consecutive_subjects)
    ELSE Solutions3(ts, mdl, constraints.consecutive_subjects,
                    constraints.non_consecutive_subjects)

\* app2 279-301, app3 315-351: the solver hands back one assignment it accepts
\* and the response is built from it, or it finds that there is none
Solve ==
    /\ pc = "solve"
    /\ calls' = calls \cup {"solve"}
    /\ \E found \in {Solutions} :
          IF found = {}
          THEN /\ result' = NoTimetable
               /\ UNCHANGED solution
          ELSE \E sol \in found :
                  /\ solution' = sol
                  /\ result' = Response(engine, ts, mdl, sol)
    /\ pc' = IF Raised(result') THEN "raised" ELSE "done"
    /\ UNCHANGED <<engine, constraints, courses, allow_free, ts, subj, tot, mdl,
                   generated_timetable, last_error>>

\* app3 317-322: max_time_in_seconds ran out, the status is UNKNOWN
SolveTimeout ==
    /\ pc = "solve"
    /\ engine = "app3"
    /\ calls' = calls \cup {"solve", "timeout"}
    /\ result' = NoTimetable
    /\ pc' = "done"
    /\ UNCHANGED <<engine, constraints, courses, allow_free, ts, subj, tot, mdl, solution,
                   generated_timetable, last_error>>

Next == Normalize \/ BuildModel \/ Solve \/ SolveTimeout

Spec == Init /\ [][Next]_vars

(***************************************************************************)
(* What the claims speak about                                             *)
(***************************************************************************)
Returned == pc = "done"
IsError(r) == "error" \in DOMAIN r
Success == Returned /\ ~IsError(result)

\* the solver accepted a timetable (and the response was built from it)
Accepted == Success /\ "solve" \in calls

NumSlots == Len(ts.slot_names)
DayOfIndex(i) == ts.slot_to_day[ts.slot_names[i + 1]]
HourOfIndex(i) == IF engine = "app2" THEN ts.slot_time[ts.slot_names[i + 1]] ELSE ts.slot_time[i]

\* the slot indices a subject name occupies in the accepted timetable: in app2
\* the slots assigned the name, in app3 the slots its occurrences' intervals cover
SlotsOf(n) ==
    IF engine = "app2"
    THEN {i \in 0..(NumSlots - 1) : solution[ts.slot_names[i + 1]] = n}
    ELSE UNION {solution[mdl.occ[k].occ_id]..(solution[mdl.occ[k].occ_id] + mdl.occ[k].duration - 1) :
                  k \in {j \in 1..Len(mdl.occ) : mdl.occ[j].name = n}}

\* the subject records of a name after normalisation (Free included)
RecordsOf(n) ==
    IF engine = "app2"
    THEN IF n \in DOMAIN subj.info
         THEN {[lectures |-> subj.required[n] \div subj.info[n].duration,
                duration |-> subj.info[n].duration,
                start_hr |-> subj.info[n].start_hr, end_hr |-> subj.info[n].end_hr]}
         ELSE {}
    ELSE {[lectures |-> subj[i].lectures, duration |-> subj[i].duration,
           start_hr |-> subj[i].start_hr, end_hr |-> subj[i].end_hr] :
             i \in {j \in 1..Len(subj) : subj[j].name = n}}

\* sessions_per_week * duration_slots of a subject name
RequiredOf(n) ==
    IF engine = "app2" THEN subj.required[n]
    ELSE SumSeq([i \in 1..Len(subj) |->
                    IF subj[i].name = n THEN subj[i].lectures * subj[i].duration ELSE 0])

EntryCount == SumOver([d \in DOMAIN result |-> Len(result[d])], DOMAIN result)
EntriesNamed(n) ==
    SumOver([d \in DOMAIN result |->
                Cardinality({i \in 1..Len(result[d]) : result[d][i].subject = n})],
            DOMAIN result)

(***************************************************************************)
(* C1: in every success response, of either engine, the number of schedule *)
(* entries summed over the seven day lists equals the number of slots      *)
(* get_time_slots produced for the request.                                *)
(***************************************************************************)
C1_EntriesEqualSlots == Success => EntryCount = NumSlots

(***************************************************************************)
(* C2: in every success response, of either engine, each subject of the    *)
(* request, and the Free subject when injected, has as many entries as its *)
(* sessions_per_week * duration_slots.                                     *)
(***************************************************************************)
C2_EntriesPerSubject ==
    Success => \A n \in SubjectNames(engine, subj) : EntriesNamed(n) = RequiredOf(n)

\* the names whose records all carry one duration, and that duration
DurationsOf(n) == {r.duration : r \in RecordsOf(n)}
MultiSlotNames ==
    {n \in SubjectNames(engine, subj) :
        Cardinality(DurationsOf(n)) = 1 /\ \A d \in DurationsOf(n) : d > 1}

(***************************************************************************)
(* C3: in every timetable the solver accepts, the slot indices of a        *)
(* subject with duration_slots > 1 split into maximal runs of consecutive  *)
(* indices, each of exactly duration_slots indices lying in one day, also  *)
(* when the subject has two or more sessions.                              *)
(***************************************************************************)
C3_MaximalRuns ==
    Accepted =>
        \A n \in MultiSlotNames :
            \A run \in Runs(SlotsOf(n)) :
                /\ \A d \in DurationsOf(n) : Cardinality(run) = d
                /\ \A i \in run : DayOfIndex(i) = DayOfIndex(Min(run))

(***************************************************************************)
(* C4: in every timetable the solver accepts, every slot a subject         *)
(* occupies, every slot of a multi-slot block included, has a start hour h *)
(* with avail_start <= h < avail_end for that subject.                     *)
(***************************************************************************)
C4_HoursInWindow ==
    Accepted =>
        \A n \in SubjectNames(engine, subj) :
            \A i \in SlotsOf(n) :
                /\ i \in 0..(NumSlots - 1)
                /\ \E r \in RecordsOf(n) :
                      r.start_hr <= HourOfIndex(i) /\ HourOfIndex(i) < r.end_hr

ConsPair == constraints.consecutive_subjects
NonConsPair == constraints.non_consecutive_subjects
IsPair(p) == Len(p) = 2 /\ p[1] # p[2]

\* the occurrences of a name: the maximal runs of its slots in app2, the
\* intervals of its occurrences in app3
OccurrencesOf(n) ==
    IF engine = "app2" THEN Runs(SlotsOf(n))
    ELSE {solution[mdl.occ[k].occ_id]..(solution[mdl.occ[k].occ_id] + mdl.occ[k].duration - 1) :
            k \in {j \in 1..Len(mdl.occ) : mdl.occ[j].name = n}}
HasBeside(o, b) == (Min(o) - 1) \in SlotsOf(b) \/ (Max(o) + 1) \in SlotsOf(b)

(***************************************************************************)
(* C5: with a consecutive pair (A, B), A # B, of two subjects of the       *)
(* request configured, in every accepted timetable every occurrence of A   *)
(* has an occurrence of B immediately before or after it, and every        *)
(* occurrence of B has an occurrence of A immediately before or after it.  *)
(***************************************************************************)
C5_ConsecutiveBothWays ==
    (Accepted /\ IsPair(ConsPair) /\ Range(ConsPair) \subseteq SubjectNames(engine, subj)) =>
        /\ \A o \in OccurrencesOf(ConsPair[1]) : HasBeside(o, ConsPair[2])
        /\ \A o \in OccurrencesOf(ConsPair[2]) : HasBeside(o, ConsPair[1])

(***************************************************************************)
(* C6: with a non-consecutive pair (A, B), A # B, configured, in every     *)
(* accepted timetable no slot occupied by A is index-adjacent to a slot    *)
(* occupied by B, whatever the two durations.                              *)
(***************************************************************************)
C6_NonConsecutiveApart ==
    (Accepted /\ IsPair(NonConsPair)) =>
        \A i \in SlotsOf(NonConsPair[1]) :
            (i - 1) \notin SlotsOf(NonConsPair[2]) /\ (i + 1) \notin SlotsOf(NonConsPair[2])

\* both subjects of the pair are on the timetable, one of them in a block of
\* two slots, with room left for them to have been neighbours
C6_Witness ==
    /\ Accepted /\ IsPair(NonConsPair)
    /\ SlotsOf(NonConsPair[1]) # {} /\ SlotsOf(NonConsPair[2]) # {}
    /\ \E n \in {NonConsPair[1], NonConsPair[2]} : n \in MultiSlotNames
    /\ NumSlots > Cardinality(SlotsOf(NonConsPair[1])) + Cardinality(SlotsOf(NonConsPair[2]))

Sliced == "get_time_slots" \in calls

(***************************************************************************)
(* C7: no slot get_time_slots produces, in app2 or in app3, has start hour *)
(* 12.                                                                     *)
(***************************************************************************)
C7_NoSlotAtLunch ==
    Sliced => \A i \in 0..(NumSlots - 1) : HourOfIndex(i) # LunchHour

(***************************************************************************)
(* C8: when get_time_slots yields more slots than the subjects require and *)
(* allow_free is false, either engine returns an error and its solver is   *)
(* never invoked.                                                          *)
(***************************************************************************)
C8_SurplusRejected ==
    (Sliced /\ tot.available > tot.required /\ ~allow_free) =>
        /\ "solve" \notin calls
        /\ Returned => IsError(result)

(***************************************************************************)
(* C9: when get_time_slots yields fewer slots than the subjects require,   *)
(* the request returns an error before any solver model is built or        *)
(* searched, whatever allow_free is.                                       *)
(***************************************************************************)
C9_UnderCapacityRejected ==
    (Sliced /\ tot.available < tot.required) =>
        /\ Returned /\ IsError(result)
        /\ "model" \notin calls /\ "solve" \notin calls

\* an under-capacity request with allow_free set has been answered
C9_Witness ==
    /\ Sliced /\ tot.available < tot.required
    /\ allow_free /\ Returned /\ IsError(result)

TotalRequiredNow ==
    IF engine = "app2" THEN TotalRequired2(subj) ELSE TotalRequired3(subj)
RecordCount ==
    IF engine = "app2" THEN Cardinality(DOMAIN subj.required) ELSE Len(subj)

(***************************************************************************)
(* C10: a Free subject is added to the subjects exactly when               *)
(* total_available > total_required and allow_free is true; it requires    *)
(* exactly total_available - total_required slots, has duration 1 and the  *)
(* window [0, 24), so the required slots then sum to total_available; when *)
(* the two totals are equal no Free subject is added.                      *)
(***************************************************************************)
C10_FreeInjection ==
    Sliced =>
        /\ (tot.free # None) <=> (tot.available > tot.required /\ allow_free)
        /\ tot.free # None =>
              /\ tot.free \notin NamesOf(courses)
              /\ RecordsOf(tot.free) =
                    {[lectures |-> tot.available - tot.required, duration |-> 1,
                      start_hr |-> 0, end_hr |-> 24]}
              /\ RequiredOf(tot.free) = tot.available - tot.required
              /\ TotalRequiredNow = tot.available
        /\ tot.free = None =>
              /\ SubjectNames(engine, subj) = NamesOf(courses)
              /\ TotalRequiredNow = tot.required
              /\ engine = "app3" => RecordCount = Len(courses)

\* a surplus of two or more slots has been handed to a Free subject
C10_Witness ==
    /\ Sliced /\ allow_free /\ tot.free # None
    /\ tot.available - tot.required > 1

(***************************************************************************)
(* Requests whose courses are themselves called Free, Free_1               *)
(***************************************************************************)
FreeLikeNames == {"Free", "Free_1", "A"}
FreeLikeRecords ==
    {[name |-> n, lectureno |-> l, duration |-> 1, start_hr |-> 9, end_hr |-> 17] :
        n \in FreeLikeNames, l \in LectureCounts}
FreeLikeLists ==
    {<<c>> : c \in FreeLikeRecords} \cup {<<c, d>> : c \in FreeLikeRecords, d \in FreeLikeRecords}
OneDayConstraints ==
    {[working_days |-> <<d>>, consecutive_subjects |-> <<"">>, non_consecutive_subjects |-> <<"">>] :
        d \in DayRecords(ModelDays[1])}

InitFree ==
    /\ engine \in {"app2", "app3"}
    /\ constraints \in OneDayConstraints
    /\ courses \in FreeLikeLists
    /\ allow_free \in BOOLEAN
    /\ pc = "start"
    /\ calls = {}
    /\ ts = None
    /\ subj = None
    /\ tot = None
    /\ mdl = None
    /\ solution = None
    /\ result = None
    /\ generated_timetable = <<>>
    /\ last_error = <<>>

SpecFree == InitFree /\ [][Next]_vars

\* the course tables as they were before the Free subject was added
CourseTable ==
    IF engine = "app2" THEN ProcessCourses2(courses) ELSE ProcessCourses3(courses)

(***************************************************************************)
(* C11: the name of the injected Free subject is the name of no course of  *)
(* the request: it is "Free" when no course is called that, else the first *)
(* of Free_1, Free_2, ... no course uses; and no course's required slots   *)
(* are overwritten by the Free subject.                                    *)
(***************************************************************************)
C11_FreeNameUnused ==
    (Sliced /\ tot.free # None) =>
        /\ tot.free \notin NamesOf(courses)
        /\ \E i \in 1..Len(FreeCandidates) :
              /\ tot.free = FreeCandidates[i]
              /\ \A j \in 1..(i - 1) : FreeCandidates[j] \in NamesOf(courses)
        /\ IF engine = "app2"
           THEN \A n \in NamesOf(courses) :
                   /\ subj.required[n] = CourseTable.required[n]
                   /\ subj.info[n] = CourseTable.info[n]
           ELSE SubSeq(subj, 1, Len(courses)) = CourseTable

\* courses called Free and Free_1 exist and the Free subject was injected
C11_Witness ==
    /\ Sliced /\ tot.free # None
    /\ {"Free", "Free_1"} \subseteq NamesOf(courses)
    /\ tot.free \in SubjectNames(engine, subj)

\* sessions_per_week * duration_slots summed over the course records of the request
Demand == SumSeq([i \in 1..Len(courses) |-> courses[i].lectureno * courses[i].duration])

(***************************************************************************)
(* C12: the total_required value compared against the slot count equals    *)
(* the sum over every course record of the request of                      *)
(* sessions_per_week * duration_slots, in both engines, also when two      *)
(* course records carry the same name.                                     *)
(***************************************************************************)
C12_TotalRequiredIsDemand == Sliced => tot.required = Demand

(***************************************************************************)
(* Requests with a pair that names one subject twice: the two selectboxes  *)
(* of a pair offer the same list of course names.                          *)
(***************************************************************************)
SamePair == <<"A", "A">>
SamePairConstraints ==
    {[working_days |-> <<d>>, consecutive_subjects |-> p[1], non_consecutive_subjects |-> p[2]] :
        d \in DayRecords(ModelDays[1]),
        p \in {<<SamePair, <<"">>>>, <<<<"">>, SamePair>>}}

InitSame ==
    /\ engine \in {"app2", "app3"}
    /\ constraints \in SamePairConstraints
    /\ courses \in CourseLists \ {<<>>}
    /\ allow_free \in BOOLEAN
    /\ pc = "start"
    /\ calls = {}
    /\ ts = None
    /\ subj = None
    /\ tot = None
    /\ mdl = None
    /\ solution = None
    /\ result = None
    /\ generated_timetable = <<>>
    /\ last_error = <<>>

SpecSame == InitSame /\ [][Next]_vars

\* a pair with its same-subject case taken out
DropSame(p) == IF Len(p) = 2 /\ p[1] = p[2] THEN <<"">> ELSE p

\* the timetables the engine accepts for the request with no same-subject pair
SolutionsWithoutSamePairs ==
    IF engine = "app2"
    THEN Solutions2(ts, subj, DropSame(ConsPair), DropSame(NonConsPair))
    ELSE Solutions3(ts, mdl, DropSame(ConsPair), DropSame(NonConsPair))

(***************************************************************************)
(* C13: a consecutive or non-consecutive pair naming one subject twice,    *)
(* (A, A), restricts nothing: the timetables either engine accepts with    *)
(* the pair configured are those it accepts with no pair configured.       *)
(***************************************************************************)
C13_SamePairNoOp ==
    pc = "solve" => Solutions = SolutionsWithoutSamePairs

(***************************************************************************)
(* get_time_slots on its own, over working days of the form's ranges       *)
(* (start hour 6..20, total hours 1..12), in any order of the days.        *)
(***************************************************************************)
SlotDays == {"Monday", "Tuesday", "Sunday"}
SlotStartHours == {6, 11, 12, 20}
SlotHourCounts == {1, 2, 3, 12}
SlotDayRecords ==
    {[day |-> d, start_hr |-> s, total_hours |-> h] :
        d \in SlotDays, s \in SlotStartHours, h \in SlotHourCounts}
\* lists of working days with distinct day names
SlotDayLists ==
    {<<>>} \cup {<<d>> : d \in SlotDayRecords}
    \cup {p \in SlotDayRecords \X SlotDayRecords : p[1].day # p[2].day}

InitSlots ==
    /\ engine \in {"app2", "app3"}
    /\ constraints \in {[working_days |-> wd, consecutive_subjects |-> <<"">>,
                         non_consecutive_subjects |-> <<"">>] : wd \in SlotDayLists}
    /\ courses = <<>>
    /\ allow_free = TRUE
    /\ pc = "slots"
    /\ calls = {}
    /\ ts = None
    /\ subj = None
    /\ tot = None
    /\ mdl = None
    /\ solution = None
    /\ result = None
    /\ generated_timetable = <<>>
    /\ last_error = <<>>

CallGetTimeSlots ==
    /\ pc = "slots"
    /\ ts' = get_time_slots(engine, constraints.working_days)
    /\ calls' = calls \cup {"get_time_slots"}
    /\ pc' = "sliced"
    /\ UNCHANGED <<engine, constraints, courses, allow_free, subj, tot, mdl, solution, result,
                   generated_timetable, last_error>>

SpecSlots == InitSlots /\ [][CallGetTimeSlots]_vars

SlotsMade == pc = "sliced"
GivenDays == constraints.working_days
SlotsOfDay(d) == {i \in 0..(NumSlots - 1) : DayOfIndex(i) = d}
\* the place of a lowercase day name in the list of working days
PlaceOfDay(d) == CHOOSE k \in 1..Len(GivenDays) : Lower(GivenDays[k].day) = d

(***************************************************************************)
(* C14: for every list of working days with distinct names, get_time_slots *)
(* of app2 and of app3 makes exactly total_hours slots for each day, the   *)
(* per-day slot-count map records that number, and the total number of     *)
(* slots is the sum of total_hours over the days.                          *)
(***************************************************************************)
C14_SlotCounts ==
    SlotsMade =>
        /\ \A k \in 1..Len(GivenDays) :
              /\ Cardinality(SlotsOfDay(Lower(GivenDays[k].day))) = GivenDays[k].total_hours
              /\ ts.day_slot_counts[Lower(GivenDays[k].day)] = GivenDays[k].total_hours
        /\ DOMAIN ts.day_slot_counts = {Lower(GivenDays[k].day) : k \in 1..Len(GivenDays)}
        /\ NumSlots = TotalHours(GivenDays)

\* two days were given and the lunch hour falls inside one of them
C14_Witness ==
    /\ SlotsMade /\ Len(GivenDays) = 2
    /\ \E k \in 1..Len(GivenDays) :
          /\ GivenDays[k].start_hr < LunchHour
          /\ GivenDays[k].start_hr + GivenDays[k].total_hours > LunchHour

(***************************************************************************)
(* C15: in the slot sequence of get_time_slots (app2 and app3) the slots   *)
(* of one day are contiguous, the days appear in the order the working     *)
(* days were given, and within a day the hour strictly increases from each *)
(* slot to the next.                                                       *)
(***************************************************************************)
C15_SlotOrder ==
    SlotsMade =>
        \A i \in 0..(NumSlots - 1) : \A j \in (i + 1)..(NumSlots - 1) :
            /\ DayOfIndex(i) = DayOfIndex(j) =>
                  \A k \in i..j : DayOfIndex(k) = DayOfIndex(i)
            /\ DayOfIndex(i) # DayOfIndex(j) =>
                  PlaceOfDay(DayOfIndex(i)) < PlaceOfDay(DayOfIndex(j))
            /\ (j = i + 1 /\ DayOfIndex(i) = DayOfIndex(j)) =>
                  HourOfIndex(i) < HourOfIndex(j)

\* Tuesday was given before Monday, each with several slots around lunch
C15_Witness ==
    /\ SlotsMade /\ Len(GivenDays) = 2
    /\ GivenDays[1].day = "Tuesday" /\ GivenDays[2].day = "Monday"
    /\ \A k \in 1..Len(GivenDays) :
          GivenDays[k].total_hours > 1 /\ GivenDays[k].start_hr \in {11, 12}

(***************************************************************************)
(* Requests with an instructor whose hours end before the day starts       *)
(***************************************************************************)
EarlyWindows == {<<9, 17>>, <<9, 11>>}
EarlyRecords ==
    {[name |-> n, lectureno |-> l, duration |-> d, start_hr |-> w[1], end_hr |-> w[2]] :
        n \in CourseNames, l \in LectureCounts, d \in Durations, w \in EarlyWindows}
EarlyLists ==
    {<<c>> : c \in EarlyRecords} \cup {<<c, d>> : c \in EarlyRecords, d \in EarlyRecords}

InitEarly ==
    /\ engine \in {"app2", "app3"}
    /\ constraints \in OneDayConstraints
    /\ courses \in EarlyLists
    /\ allow_free \in BOOLEAN
    /\ pc = "start"
    /\ calls = {}
    /\ ts = None
    /\ subj = None
    /\ tot = None
    /\ mdl = None
    /\ solution = None
    /\ result = None
    /\ generated_timetable = <<>>
    /\ last_error = <<>>

SpecEarly == InitEarly /\ [][Next]_vars

\* the course records with a session whose window holds the hour of no slot
OutOfHours ==
    {i \in 1..Len(courses) :
        /\ courses[i].lectureno >= 1
        /\ \A k \in 0..(NumSlots - 1) :
              ~(courses[i].start_hr <= HourOfIndex(k) /\ HourOfIndex(k) < courses[i].end_hr)}

NamesSubject(r, n) ==
    /\ IsError(r)
    /\ Len(r.error) = 2
    /\ r.error[1] = "No feasible start slots for subject"
    /\ r.error[2] = n

(***************************************************************************)
(* C16: if a subject with at least one session has an availability window  *)
(* that holds the hour of no generated slot, the solve call of either      *)
(* engine (its capacity checks passed) fails in a check made before the    *)
(* search starts, with an error naming such a subject.                     *)
(***************************************************************************)
C16_UnschedulableNamed ==
    ("model" \in calls /\ OutOfHours # {}) =>
        /\ "solve" \notin calls
        /\ Returned => \E i \in OutOfHours : NamesSubject(result, courses[i].name)

(***************************************************************************)
(* C17: when the search ends because its time budget ran out, with neither *)
(* a solution nor a proof of infeasibility, the error returned differs     *)
(* from the error returned when the search proved that no timetable        *)
(* exists.                                                                 *)
(***************************************************************************)
C17_TimeoutDistinct == [][SolveTimeout => result' # NoTimetable]_vars

(***************************************************************************)
(* Requests whose working days carry a day identifier outside the week     *)
(***************************************************************************)
DayIds == <<"Monday", "Holiday">>
DayIdLists ==
    {wd \in {<<d>> : d \in DayRecords(DayIds[1]) \cup DayRecords(DayIds[2])}
            \cup {<<d, e>> : d \in DayRecords(DayIds[1]), e \in DayRecords(DayIds[2])} :
        TotalHours(wd) <= MaxSlots}

InitDayIds ==
    /\ engine \in {"app2", "app3"}
    /\ constraints \in {[working_days |-> wd, consecutive_subjects |-> <<"">>,
                         non_consecutive_subjects |-> <<"">>] : wd \in DayIdLists}
    /\ courses \in CourseLists \ {<<>>}
    /\ allow_free \in BOOLEAN
    /\ pc = "start"
    /\ calls = {}
    /\ ts = None
    /\ subj = None
    /\ tot = None
    /\ mdl = None
    /\ solution = None
    /\ result = None
    /\ generated_timetable = <<>>
    /\ last_error = <<>>

SpecDayIds == InitDayIds /\ [][Next]_vars

(***************************************************************************)
(* C18: for every well-typed request, with any day identifiers, a solve    *)
(* call of either engine ends by returning a day-keyed schedule or a value *)
(* {error: message}; no exception leaves the solve call.                   *)
(***************************************************************************)
C18_NoException ==
    /\ pc # "raised"
    /\ Returned => (IsError(result) \/ DOMAIN result = RespKeys)

\* every way of giving each slot a subject (app2) or each occurrence a start (app3)
Candidates ==
    IF engine = "app2" THEN [Range(ts.slot_names) -> DOMAIN subj.required]
    ELSE [0..(Len(mdl.occ) - 1) -> 0..(NumSlots - 1)]
AcceptedBy(sol) ==
    IF engine = "app2" THEN Accepts2(ts, subj, ConsPair, NonConsPair, sol)
    ELSE Accepts3(ts, mdl, ConsPair, NonConsPair, sol)
\* some assignment satisfies the count, contiguity, availability and adjacency
\* constraints the engine posted
SomeAssignment == \E sol \in Candidates : AcceptedBy(sol)

ShownHour(t) == t[1] * 10 + t[2]

(***************************************************************************)
(* C20: every entry of a success response, of either engine, has an        *)
(* end_time whose hour is the hour of its start_time plus the              *)
(* duration_slots of its subject, and the entries of each day are in       *)
(* ascending order of start hour.                                          *)
(***************************************************************************)
C20_EndTimeAndOrder ==
    Success =>
        \A d \in DOMAIN result :
            /\ \A i \in 1..Len(result[d]) :
                  \E dur \in DurationsOf(result[d][i].subject) :
                      ShownHour(result[d][i].end_time) = ShownHour(result[d][i].start_time) + dur
            /\ \A i \in 1..Len(result[d]) : \A j \in (i + 1)..Len(result[d]) :
                  ShownHour(result[d][i].start_time) <= ShownHour(result[d][j].start_time)

NoDays == constraints.working_days = <<>>
NoCourses == courses = <<>>

(***************************************************************************)
(* C21: a request with no working days or no courses makes the solve call  *)
(* of either engine return an error response before any slot is built:     *)
(* get_time_slots is never called.                                         *)
(***************************************************************************)
C21_EmptyRequestRejected ==
    (NoDays \/ NoCourses) =>
        /\ ~Sliced
        /\ pc \in {"start", "done"}
        /\ Returned => IsError(result) /\ calls = {}

\* saved constraints with no working day, courses present, call answered
C21_Witness ==
    /\ Returned /\ IsError(result)
    /\ NoDays /\ ~NoCourses /\ constraints # EmptyDict

\* app2 280: problem.getSolution() is a sequential backtracking search over
\* fixed variable and domain orders, a function of the problem: the same problem
\* gives the same assignment, whichever of the accepted ones it is
getSolution(found) == CHOOSE sol \in found : TRUE

\* app2 279-282, app3 315-322: the results one solve call on the request at hand
\* can come back with.  CP-SAT runs 8 search workers against a wall-clock
\* limit: which worker reports first, and whether any does in time, is not a
\* function of the request
SolveOutcomes ==
    IF engine = "app2"
    THEN IF Solutions = {} THEN {NoTimetable}
         ELSE {Response(engine, ts, mdl, getSolution(Solutions))}
    ELSE {Response(engine, ts, mdl, sol) : sol \in Solutions} \cup {NoTimetable}

(***************************************************************************)
(* C22: two solve calls on the same unchanged request return the same      *)
(* result, the same assignment of subjects to slots on success or the same *)
(* error: a request that has reached the solver has one possible result.   *)
(***************************************************************************)
C22_SameResult ==
    pc = "solve" => \A r1, r2 \in SolveOutcomes : r1 = r2

(***************************************************************************)
(* The Streamlit session.  main() reruns on every click; between clicks    *)
(* the session holds courses, constraints, generated_timetable and         *)
(* last_error.  pc = "ui" is the page waiting for a click; a click on      *)
(* "Generate Timetable" runs the solve call (pc "start" .. "done") and     *)
(* stores what it returned before the page waits again.                    *)
(***************************************************************************)
\* "Add Courses" form: what a submitted course may hold
FormCourses ==
    {c \in CourseRecords : c.duration = 1 /\ <<c.start_hr, c.end_hr>> = <<9, 17>>}
\* "Set Constraints" form: the working days a save may carry
FormWorkingDays ==
    {<<>>} \cup {<<d>> : d \in {r \in DayRecords(ModelDays[1]) : r.total_hours <= 2}}

\* app2 52-61: initialize_session_state
InitSession ==
    /\ engine \in {"app2", "app3"}
    /\ constraints = EmptyDict
    /\ courses = <<>>
    /\ allow_free = TRUE
    /\ pc = "ui"
    /\ calls = {}
    /\ ts = None
    /\ subj = None
    /\ tot = None
    /\ mdl = None
    /\ solution = None
    /\ result = None
    /\ generated_timetable = <<>>
    /\ last_error = <<>>

\* app2 336-347: "Add Course" with both text fields filled in
AddCourse ==
    /\ pc = "ui"
    /\ Len(courses) < Len(ModelDays)
    /\ \E c \in FormCourses : courses' = Append(courses, c)
    /\ UNCHANGED <<engine, constraints, allow_free, pc, calls, ts, subj, tot, mdl,
                   solution, result, generated_timetable, last_error>>

\* app2 368-371: "Clear All Courses", shown while there are courses
ClearAllCourses ==
    /\ pc = "ui"
    /\ courses # <<>>
    /\ courses' = <<>>
    /\ generated_timetable' = <<>>
    /\ UNCHANGED <<engine, constraints, allow_free, pc, calls, ts, subj, tot, mdl,
                   solution, result, last_error>>

\* app2 406-419: the options of each of the four selectboxes
SelectOptions(cs) == {""} \cup NamesOf(cs)
\* app2 423-424: [a, b] when both boxes are filled, else [""]
PairOf(a, b) == IF a # "" /\ b # "" THEN <<a, b>> ELSE <<"">>

\* app2 421-443: "Save Constraints", shown while there are courses
SaveConstraints ==
    /\ pc = "ui"
    /\ courses # <<>>
    /\ \E wd \in FormWorkingDays, c1, c2, n1, n2 \in SelectOptions(courses) :
          LET cons_pair == PairOf(c1, c2)
              noncons_pair == PairOf(n1, n2)
          IN IF /\ cons_pair[1] # ""
                /\ noncons_pair[1] # ""
                /\ Range(cons_pair) = Range(noncons_pair)
             THEN UNCHANGED constraints
             ELSE constraints' = [working_days |-> wd,
                                  consecutive_subjects |-> cons_pair,
                                  non_consecutive_subjects |-> noncons_pair]
    /\ UNCHANGED <<engine, courses, allow_free, pc, calls, ts, subj, tot, mdl,
                   solution, result, generated_timetable, last_error>>

\* app2 450-456, 493-498: the "Generate Timetable" page returns early without
\* courses or constraints; the click enters the solve call with the checkbox
ClickGenerate ==
    /\ pc = "ui"
    /\ courses # <<>>
    /\ constraints # EmptyDict
    /\ allow_free' \in BOOLEAN
    /\ pc' = "start"
    /\ UNCHANGED <<engine, constraints, courses, calls, ts, subj, tot, mdl,
                   solution, result, generated_timetable, last_error>>

\* a failed generation that leaves the timetable of an earlier one in place
Stored_keeps_timetable(r, held) ==
    IF IsError(r)
    THEN [generated_timetable |-> held, last_error |-> <<r.error>>]
    ELSE [generated_timetable |-> <<r>>, last_error |-> <<>>]

\* app2 500-511, app3 564-575: what the session holds after a returned solve call
Stored(r, held) ==
    IF IsError(r)
    THEN [generated_timetable |-> <<>>, last_error |-> <<r.error>>]
    ELSE [generated_timetable |-> <<r>>, last_error |-> <<>>]

\* app2 498-511; app3 551-575: the solve call is over, its locals are gone.
\* An exception is caught by app3 only (553-555); in app2 it ends the rerun
\* with the session as it was
StoreResult ==
    /\ pc \in {"done", "raised"}
    /\ IF pc = "done"
       THEN /\ generated_timetable' = Stored(result, generated_timetable).generated_timetable
            /\ last_error' = Stored(result, generated_timetable).last_error
       ELSE IF engine = "app3"
       THEN /\ generated_timetable' = <<>>
            /\ last_error' = <<result.exception>>
       ELSE UNCHANGED <<generated_timetable, last_error>>
    /\ pc' = "ui"
    /\ calls' = {}
    /\ ts' = None
    /\ subj' = None
    /\ tot' = None
    /\ mdl' = None
    /\ solution' = None
    /\ result' = None
    /\ UNCHANGED <<engine, constraints, courses, allow_free>>

\* app2 525-527, 572-574: "Generate New Timetable", shown under a timetable
GenerateNew ==
    /\ pc = "ui"
    /\ generated_timetable # <<>>
    /\ generated_timetable' = <<>>
    /\ UNCHANGED <<engine, constraints, courses, allow_free, pc, calls, ts, subj, tot,
                   mdl, solution, result, last_error>>

NextSession ==
    \/ AddCourse \/ ClearAllCourses \/ SaveConstraints \/ ClickGenerate
    \/ Normalize \/ BuildModel \/ Solve \/ SolveTimeout
    \/ StoreResult \/ GenerateNew

SpecSession == InitSession /\ [][NextSession]_vars

\* the subjects named in the saved pairs
PairNames ==
    (Range(constraints.consecutive_subjects) \cup Range(constraints.non_consecutive_subjects))
        \ {""}

(***************************************************************************)
(* C23: after any sequence of UI actions (add course, clear all courses,   *)
(* save constraints, generate) every subject named in the saved            *)
(* consecutive or non-consecutive pair is the name of a course currently   *)
(* in the course list.                                                     *)
(***************************************************************************)
C23_PairsNameCourses == PairNames \subseteq NamesOf(courses)

(***************************************************************************)
(* C24: after any sequence of UI actions the session never holds both a    *)
(* non-empty generated_timetable and a non-empty last_error: a failed      *)
(* generation clears the timetable, a successful one clears the error.     *)
(***************************************************************************)
C24_TimetableOrError == generated_timetable = <<>> \/ last_error = <<>>

\* a generation fails while the session holds the timetable of an earlier one,
\* or succeeds while it holds the error of an earlier one
C24_Witness ==
    /\ pc = "done"
    /\ \/ IsError(result) /\ generated_timetable # <<>>
       \/ ~IsError(result) /\ last_error # <<>>

(***************************************************************************)
(* Requests with a three-hour course (the form's duration [1, 2, 3]) and   *)
(* the consecutive pair (A, B).                                            *)
(***************************************************************************)
LongDurations == {1, 2, 3}
LongRecords ==
    {[name |-> n, lectureno |-> l, duration |-> d, start_hr |-> 9, end_hr |-> 17] :
        n \in CourseNames, l \in LectureCounts, d \in LongDurations}
LongLists ==
    {<<>>} \cup {<<c>> : c \in LongRecords} \cup {<<c, d>> : c \in LongRecords, d \in LongRecords}
    \cup {<<c, d, e>> : c \in LongRecords, d \in LongRecords, e \in LongRecords}
LongConstraints == {k \in SavedConstraints : k.consecutive_subjects = <<"A", "B">>}

InitLong ==
    /\ engine \in {"app2", "app3"}
    /\ constraints \in LongConstraints
    /\ courses \in LongLists
    /\ allow_free \in BOOLEAN
    /\ pc = "start"
    /\ calls = {}
    /\ ts = None
    /\ subj = None
    /\ tot = None
    /\ mdl = None
    /\ solution = None
    /\ result = None
    /\ generated_timetable = <<>>
    /\ last_error = <<>>

SpecLong == InitLong /\ [][Next]_vars

\* multi_slot_subjects (app2 136-146) holds a subject of the consecutive pair
\* with three slots or more per session
LongInPair ==
    /\ IsPair(ConsPair)
    /\ \E n \in Range(ConsPair) \cap DOMAIN ProcessCourses2(courses).multi :
          ProcessCourses2(courses).multi[n] >= 3

(***************************************************************************)
(* C25: in the python-constraint engine, when a consecutive pair (A, B)    *)
(* with A # B is configured and A or B has a duration of three slots or    *)
(* more and at least one session, the call always returns an error: the    *)
(* middle slot of a block cannot pass the adjacency check.                 *)
(***************************************************************************)
C25_LongPairRejected ==
    engine = "app2" /\ LongInPair /\ Returned => IsError(result)

\* both subjects of the pair are courses, each entered once, the capacity check
\* passed and the solver looked for an assignment
C25_Witness ==
    /\ engine = "app2" /\ LongInPair /\ Returned
    /\ Range(ConsPair) \subseteq NamesOf(courses)
    /\ Cardinality(NamesOf(courses)) = Len(courses)
    /\ "solve" \in calls
    /\ result = NoTimetable

(***************************************************************************)
(* C26: the injected Free subject is admissible in every generated slot:   *)
(* for every working day the input form accepts (start hour 6..20, total   *)
(* hours 1..12) every slot hour h made by get_time_slots satisfies         *)
(* 0 <= h < 24, so the window of Free never excludes a slot.               *)
(***************************************************************************)
C26_SlotHoursInDay ==
    SlotsMade =>
        \A i \in 0..(NumSlots - 1) :
            /\ 0 <= HourOfIndex(i)
            /\ HourOfIndex(i) < 24
            /\ HourOk(HourOfIndex(i), FreeInfo)
====
